---- MODULE Spec2Model ----
(***************************************************************************)
(* State-machine model of pyscf/agf2/uagf2.py (unrestricted AGF2).         *)
(*                                                                         *)
(* One operation of the module runs at a time (the code is single-         *)
(* threaded): `op` names it and `pc` is its position.  Each operation has  *)
(* a frame holding its arguments and Python locals.  Real-valued           *)
(* quantities are scaled integers: residuals and density-matrix entries    *)
(* are in units of half a tolerance, memory is in tensor elements (the     *)
(* factor 8/1e6 of the source is divided out on both sides).  Results of   *)
(* the numerical collaborators that are not part of uagf2.py (eigen-       *)
(* solver, chemical-potential search, moment factoriser) are inputs drawn  *)
(* from small sets.                                                        *)
(***************************************************************************)
EXTENDS Integers, Sequences, FiniteSets

VARIABLES op, pc, err, work, touched, args, fl, bs, gfk, qm, ipea, en, ia, blk

vars == <<op, pc, err, work, touched, args, fl, bs, gfk, qm, ipea, en, ia, blk>>

----------------------------------------------------------------------------
(* Bounds of the model *)

MaxCycleOuter == 2

MaxCycleInner == 2

\* most poles of one spin's Green's function
MaxAux == 2

\* most poles the moment factoriser hands back for one build
MaxSePoles == 1

(* Program constants, in the model's units *)

conv_tol_rdm1 == 2

conv_tol_nelec == 2

weight_tol == 2

----------------------------------------------------------------------------
(* Values *)

Kinds == {"GreensFunction", "SelfEnergy"}

KindPairs == Kinds \X Kinds

\* signed electron-count residuals binsearch_chempot can hand back
NerrVals == {-3, 0, 1}

\* values of the (one-element) density matrix of one spin
RdmVals == {0, 1, 3}

Max(a, b) == IF a >= b THEN a ELSE b

Abs(a) == IF a < 0 THEN 0 - a ELSE a

Min(a, b) == IF a <= b THEN a ELSE b

\* multiplication by 0.5, of values that are even in the model's units
Half(v) == v \div 2

\* int() of the quotient of a by a positive b: rounds towards zero
TruncDiv(a, b) == IF a >= 0 THEN a \div b ELSE 0 - ((0 - a) \div b)

NoArgs == [gf |-> <<"GreensFunction", "GreensFunction">>,
           se |-> <<"SelfEnergy", "SelfEnergy">>]

----------------------------------------------------------------------------
(* fock_loop *)

\* the four assertions that open fock_loop
FockLoopKindsOk(gk, sk) ==
    /\ gk[1] = "GreensFunction"
    /\ gk[2] = "GreensFunction"
    /\ sk[1] = "SelfEnergy"
    /\ sk[2] = "SelfEnergy"

\* the break test of the inner loop
InnerConverged(derr) == derr < conv_tol_rdm1

OuterConverged_NoAbs(derr, nerr) ==
    derr < conv_tol_rdm1 /\ nerr < conv_tol_nelec

\* the success test of the outer loop
OuterConverged(derr, nerr) ==
    derr < conv_tol_rdm1 /\ Abs(nerr) < conv_tol_nelec

\* the values of the get_fock keyword: None, or a callable of the caller
GetFockArgs == {"None", "custom"}

\* lines 210-211: the default stands in for a missing callable
resolve_get_fock(get_fock) ==
    IF get_fock = "None" THEN "agf2.get_fock" ELSE get_fock

\* line 216: the function that evaluates the first Fock matrix
first_fock_by(get_fock) == resolve_get_fock(get_fock)

\* line 249: the function that evaluates the Fock matrix of an inner pass
inner_fock_by(get_fock) == "agf2.get_fock"

new_diis_Reused(left) == left

\* lines 213-215: the accumulator is constructed in the call; `left` is the
\* number of entries in the accumulator of the invocation that returned
\* just before, the result the number of entries the new one starts with
new_diis(left) == 0

\* the locals of fock_loop before the call; `bound` is the set of the
\* residual locals that have been assigned, gf and se name the inner pass
\* <<niter1, niter2>> that produced the current pair (<<0, 0>>: the arguments),
\* diis counts the entries pushed into the accumulator, fock_by is the set of
\* functions that evaluated a Fock matrix, restart tells that the call came
\* right after an invocation that had pushed entries
FlInit ==
    [max_cycle_outer |-> 0, max_cycle_inner |-> 0,
     niter1 |-> 0, niter2 |-> 0, it2 |-> 0, bound |-> {},
     nerra |-> 0, nerrb |-> 0, nerr |-> 0,
     rdm1a |-> 0, rdm1b |-> 0, rdm1a_prev |-> 0, rdm1b_prev |-> 0,
     derra |-> 0, derrb |-> 0, derr |-> 0,
     converged |-> FALSE, gf |-> <<0, 0>>, se |-> <<0, 0>>,
     diis |-> 0, derr_at |-> <<0, 0>>, passes |-> 0, left_by |-> "none",
     get_fock |-> "None", fock_by |-> {}, restart |-> FALSE]

\* lines 202-226: assertions, DIIS object, first Fock matrix, locals; the
\* caller is idle, or has just been handed the result of an invocation and
\* calls again
FockLoopCall ==
    /\ \/ pc = "idle"
       \/ op = "fock_loop" /\ pc = "returned"
    /\ \E gk \in KindPairs, sk \in KindPairs :
         /\ args' = [gf |-> gk, se |-> sk]
         /\ IF FockLoopKindsOk(gk, sk)
            THEN \E mo \in 0..MaxCycleOuter, mi \in 0..MaxCycleInner,
                    gfn \in GetFockArgs :
                   /\ fl' = [FlInit EXCEPT !.max_cycle_outer = mo,
                                           !.max_cycle_inner = mi,
                                           !.get_fock = gfn,
                                           !.fock_by = {first_fock_by(gfn)},
                                           !.diis = new_diis(fl.diis),
                                           !.restart = (fl.diis > 0)]
                   /\ pc' = "fl_outer"
                   /\ err' = "none"
                   /\ work' = 1
                   /\ touched' = {"diis"}
            ELSE /\ fl' = FlInit
                 /\ pc' = "raised"
                 /\ err' = "AssertionError"
                 /\ work' = 0
                 /\ touched' = {}
    /\ op' = "fock_loop"
    /\ UNCHANGED <<bs, gfk, qm, ipea, en, ia, blk>>

\* lines 228-232: the head of the outer loop and the two minimize_chempot calls
FockLoopOuter ==
    /\ op = "fock_loop" /\ pc = "fl_outer"
    /\ IF fl.niter1 < fl.max_cycle_outer
       THEN /\ fl' = [fl EXCEPT !.niter1 = @ + 1, !.it2 = 0,
                                !.se = <<fl.niter1 + 1, 0>>]
            /\ pc' = "fl_inner"
            /\ touched' = touched \cup {"se.chempot"}
            /\ work' = work
       ELSE /\ fl' = [fl EXCEPT !.left_by = "bound"]
            /\ pc' = "fl_exit"
            /\ UNCHANGED <<touched, work>>
    /\ UNCHANGED <<op, err, args, bs, gfk, qm, ipea, en, ia, blk>>

\* lines 234-262: one pass of the inner loop, or its exhaustion
FockLoopInner ==
    /\ op = "fock_loop" /\ pc = "fl_inner"
    /\ IF fl.it2 < fl.max_cycle_inner
       THEN \E na \in NerrVals, nb \in NerrVals, ra \in RdmVals, rb \in RdmVals :
              LET n2 == fl.it2 + 1
                  da == Abs(ra - fl.rdm1a_prev)
                  db == Abs(rb - fl.rdm1b_prev)
                  d  == Max(da, db)
                  f1 == [fl EXCEPT !.it2 = n2, !.niter2 = n2,
                                   !.nerra = na, !.nerrb = nb,
                                   !.nerr = Max(na, nb),
                                   !.rdm1a = ra, !.rdm1b = rb,
                                   !.gf = <<fl.niter1, n2>>,
                                   !.se = <<fl.niter1, n2>>,
                                   !.diis = @ + 1,
                                   !.fock_by = @ \cup {inner_fock_by(fl.get_fock)},
                                   !.passes = @ + 1,
                                   !.bound = @ \cup {"niter2", "nerra", "nerrb", "nerr"}]
                  f2 == IF n2 > 1
                        THEN [f1 EXCEPT !.derra = da, !.derrb = db, !.derr = d,
                                        !.derr_at = <<fl.niter1, n2>>,
                                        !.bound = @ \cup {"derra", "derrb", "derr"}]
                        ELSE f1
              IN  IF n2 > 1 /\ InnerConverged(d)
                  THEN /\ fl' = f2
                       /\ pc' = "fl_after"
                  ELSE /\ fl' = [f2 EXCEPT !.rdm1a_prev = ra, !.rdm1b_prev = rb]
                       /\ pc' = "fl_inner"
       ELSE /\ fl' = fl
            /\ pc' = "fl_after"
    /\ work' = IF fl.it2 < fl.max_cycle_inner THEN 1 ELSE work
    /\ UNCHANGED <<op, err, args, touched, bs, gfk, qm, ipea, en, ia, blk>>

\* lines 264-270: the debug line reads niter2, nerr and derr, then the
\* success test
FockLoopAfterInner ==
    /\ op = "fock_loop" /\ pc = "fl_after"
    /\ IF {"niter2", "nerr", "derr"} \subseteq fl.bound
       THEN /\ err' = err
            /\ IF OuterConverged(fl.derr, fl.nerr)
               THEN /\ fl' = [fl EXCEPT !.converged = TRUE, !.left_by = "tolerance"]
                    /\ pc' = "fl_exit"
               ELSE /\ fl' = fl
                    /\ pc' = "fl_outer"
       ELSE /\ fl' = [fl EXCEPT !.left_by = "exception"]
            /\ pc' = "raised"
            /\ err' = "UnboundLocalError"
    /\ UNCHANGED <<op, args, work, touched, bs, gfk, qm, ipea, en, ia, blk>>

\* lines 272-280: the two info lines read nerra, derra, nerrb, derrb
FockLoopExit ==
    /\ op = "fock_loop" /\ pc = "fl_exit"
    /\ IF {"nerra", "derra", "nerrb", "derrb"} \subseteq fl.bound
       THEN pc' = "returned" /\ err' = err
       ELSE pc' = "raised" /\ err' = "UnboundLocalError"
    /\ UNCHANGED <<op, args, work, touched, fl, bs, gfk, qm, ipea, en, ia, blk>>

----------------------------------------------------------------------------
(* Auxiliary sets: the part of pyscf.agf2.aux that uagf2.py relies on *)

EnergyVals == {-1, 0, 1}

ChempotVals == {0}

\* squared coupling norms the moment factoriser can hand back
WeightVals == {1, 2}

SeqsUpTo(S, n) == UNION {[1..k -> S] : k \in 0..n}

IsSorted(s) == \A i \in 1..(Len(s) - 1) : s[i] <= s[i + 1]

\* the Green's functions of one spin: pole energies in ascending order (the
\* order of the eigenvalues) and a chemical potential
GreensFunctions ==
    {[energy |-> e, chempot |-> m] :
        e \in {x \in SeqsUpTo(EnergyVals, MaxAux) : IsSorted(x)},
        m \in ChempotVals}

EmptyGf == [energy |-> <<>>, chempot |-> 0]

naux(g) == Len(g.energy)

\* the poles at or below the chemical potential
get_occupied(g) ==
    [g EXCEPT !.energy = SelectSeq(@, LAMBDA e : e <= g.chempot)]

\* the poles above the chemical potential
get_virtual(g) ==
    [g EXCEPT !.energy = SelectSeq(@, LAMBDA e : e > g.chempot)]

\* aux.combine: the poles of a followed by those of b
combine(a, b) ==
    [f \in DOMAIN a |-> IF f = "chempot" THEN a.chempot ELSE a[f] \o b[f]]

\* SelfEnergy.remove_uncoupled: drop the poles of weight below tol
remove_uncoupled(se, tol) ==
    [se EXCEPT !.weight = SelectSeq(@, LAMBDA w : w >= tol)]

----------------------------------------------------------------------------
(* The quasi-particle transform *)

NmoVals == {1, 2}

SpinArgs == {"None", "0", "1"}

Tensor(eri, shape, c) == [eri |-> eri, shape |-> shape, c |-> c]

\* _make_qmo_eris_incore: each tensor is named by the integrals it contracts,
\* its four transformation matrices and its shape after the reshape
make_qmo_eris_incore(nmo, nocc, nvir, spin) ==
    LET nmoa == nmo[1]
        nmob == nmo[2]
        nia == nocc[1]
        nja == nocc[1]
        nib == nocc[2]
        njb == nocc[2]
        naa == nvir[1]
        nab == nvir[2]
        qeri_aa == Tensor("eri_aa", <<nmoa, nia, nja, naa>>,
                          <<"eye(nmoa)", "cia", "cja", "caa">>)
        qeri_ab == Tensor("eri_ab", <<nmoa, nia, njb, nab>>,
                          <<"eye(nmoa)", "cia", "cjb", "cab">>)
        qeri_bb == Tensor("eri_bb", <<nmob, nib, njb, nab>>,
                          <<"eye(nmob)", "cib", "cjb", "cab">>)
        qeri_ba == Tensor("eri_ba", <<nmob, nib, nja, naa>>,
                          <<"eye(nmob)", "cib", "cja", "caa">>)
    IN  [status |-> "ok",
         qeri |-> CASE spin = "None" -> <<<<qeri_aa, qeri_ab>>, <<qeri_ba, qeri_bb>>>>
                    [] spin = "0" -> <<qeri_aa, qeri_ab>>
                    [] spin = "1" -> <<qeri_bb, qeri_ba>>]

\* _make_qmo_eris_outcore: its signature has no spin parameter, so a call
\* that passes spin= fails when the arguments are bound; a call without it
\* reaches line 796, which reads the name nmo that nothing defines
\* written lists the blocks stored so far: none, as both failures come
\* before the datasets are created (lines 813-814, 849-850)
make_qmo_eris_outcore(nmo, nocc, nvir, spin_passed) ==
    IF spin_passed
    THEN [status |-> "TypeError", qeri |-> <<>>, written |-> <<>>]
    ELSE [status |-> "NameError", qeri |-> <<>>, written |-> <<>>]

QmInit == [nmo |-> <<1, 1>>, nocc |-> <<0, 0>>, nvir |-> <<0, 0>>,
           spin |-> "None", spin_passed |-> FALSE,
           incore |-> [status |-> "none", qeri |-> <<>>],
           outcore |-> [status |-> "none", qeri |-> <<>>, written |-> <<>>]]

\* the materialized transform on one input
QmoIncore ==
    /\ pc = "idle"
    /\ \E nmo \in NmoVals \X NmoVals, nocc \in (0..MaxAux) \X (0..MaxAux),
          nvir \in (0..MaxAux) \X (0..MaxAux), spin \in SpinArgs :
         qm' = [QmInit EXCEPT !.nmo = nmo, !.nocc = nocc, !.nvir = nvir,
                              !.spin = spin,
                              !.incore = make_qmo_eris_incore(nmo, nocc, nvir, spin)]
    /\ op' = "qmo"
    /\ pc' = "qm_outcore"
    /\ err' = "none"
    /\ work' = 1
    /\ touched' = {}
    /\ UNCHANGED <<args, fl, bs, gfk, ipea, en, ia, blk>>

\* the streamed transform on the same input
QmoOutcore ==
    /\ op = "qmo" /\ pc = "qm_outcore"
    /\ \E sp \in (IF qm.spin = "None" THEN BOOLEAN ELSE {TRUE}) :
         LET r == make_qmo_eris_outcore(qm.nmo, qm.nocc, qm.nvir, sp)
         IN  /\ qm' = [qm EXCEPT !.spin_passed = sp, !.outcore = r]
             /\ pc' = IF r.status = "ok" THEN "returned" ELSE "raised"
             /\ err' = IF r.status = "ok" THEN "none" ELSE r.status
    /\ UNCHANGED <<op, work, touched, args, fl, bs, gfk, ipea, en, ia, blk>>

----------------------------------------------------------------------------
(* The block plan of the streamed transform (lines 816-823 and 852-857),   *)
(* taken by itself: the statements between the creation of the datasets    *)
(* and the end of the block loop, on inputs of their own                   *)

\* values of agf2_uagf2_blkmin (line 35; the default is 1)
BlkMinVals == {1, 2}

\* agf2.max_memory - lib.current_memory()[0], in tensor elements
RemainingVals == {-9, 0, 9, 40, 60}

PlanNmoVals == {1, 2, 3}

PlanNauxVals == {0, 1}

\* lines 817-819 for spin 0 and 853-855 for spin 1: n is the size of the
\* axis that is blocked, m the size of the other spin's, nj and na the
\* occupied and virtual counts of the blocked spin, njo and nao the other's
blksize_of(n, m, nj, na, njo, nao, remaining, blkmin) ==
    LET denom == Max(n * n * n + n * nj * na, n * m * m * njo * nao)
    IN  Min(n, Max(blkmin, TruncDiv(remaining, denom)))

\* the datasets the blocks of one spin go to (lines 813-814, 849-850)
qmo_labels(spin) ==
    IF spin = "0" THEN <<"qmo/aa", "qmo/ab">> ELSE <<"qmo/bb", "qmo/ba">>

\* lib.prange(0, n, blksize) at position p0: the block <<p0, p1>>
prange_block(p0, n, blksize) == <<p0, Min(p0 + blksize, n)>>

BlkInit ==
    [stage |-> "none", spin |-> "0", n |-> 1, remaining |-> 0, blkmin |-> 1,
     blksize |-> 0, p0 |-> 0, written |-> <<>>]

\* lines 816-819 (853-855): the block size
PlanBlocks ==
    /\ blk.stage = "none"
    /\ \E spin \in {"0", "1"}, n \in PlanNmoVals, m \in PlanNmoVals,
          nj \in PlanNauxVals, na \in PlanNauxVals,
          njo \in PlanNauxVals, nao \in PlanNauxVals,
          remaining \in RemainingVals, blkmin \in BlkMinVals :
         blk' = [BlkInit EXCEPT
                   !.stage = "loop", !.spin = spin, !.n = n,
                   !.remaining = remaining, !.blkmin = blkmin,
                   !.blksize = blksize_of(n, m, nj, na, njo, nao,
                                          remaining, blkmin)]
    /\ UNCHANGED <<op, pc, err, work, touched, args, fl, bs, gfk, qm, ipea, en, ia>>

\* lines 823-846 (857-882): one pass of the block loop stores the block in
\* both datasets of the spin
PlanWriteBlock ==
    /\ blk.stage = "loop" /\ blk.p0 < blk.n
    /\ LET b == prange_block(blk.p0, blk.n, blk.blksize)
           l == qmo_labels(blk.spin)
       IN  blk' = [blk EXCEPT
                     !.p0 = blk.p0 + blk.blksize,
                     !.written = @ \o <<[label |-> l[1], p0 |-> b[1], p1 |-> b[2]],
                                        [label |-> l[2], p0 |-> b[1], p1 |-> b[2]]>>]
    /\ UNCHANGED <<op, pc, err, work, touched, args, fl, bs, gfk, qm, ipea, en, ia>>

\* the block loop is exhausted
PlanEnd ==
    /\ blk.stage = "loop" /\ blk.p0 >= blk.n
    /\ blk' = [blk EXCEPT !.stage = "done"]
    /\ UNCHANGED <<op, pc, err, work, touched, args, fl, bs, gfk, qm, ipea, en, ia>>

\* the next input
PlanReset ==
    /\ blk.stage = "done"
    /\ blk' = BlkInit
    /\ UNCHANGED <<op, pc, err, work, touched, args, fl, bs, gfk, qm, ipea, en, ia>>

----------------------------------------------------------------------------
(* build_se and build_se_part *)

MaxMemoryVals == {8, 64}

MemNowVals == {0, 8}

\* the four kind assertions that open build_se_part
BuildSePartKindsOk(ko, kv) ==
    /\ ko[1] = "GreensFunction"
    /\ ko[2] = "GreensFunction"
    /\ kv[1] = "GreensFunction"
    /\ kv[2] = "GreensFunction"

\* lines 576-577 of build_se: the split of both spins
build_se_split_SameSpin(gf) ==
    [occ |-> <<get_occupied(gf[1]), get_occupied(gf[2])>>,
     vir |-> <<get_virtual(gf[1]), get_virtual(gf[1])>>]

build_se_split(gf) ==
    [occ |-> <<get_occupied(gf[1]), get_occupied(gf[2])>>,
     vir |-> <<get_virtual(gf[1]), get_virtual(gf[2])>>]

\* line 96: which transform the memory estimate selects
qmo_strategy(mem_incore, mem_now, max_memory) ==
    IF mem_incore + mem_now < max_memory THEN "incore" ELSE "outcore"

build_se_part_spin_NoTruncation(poles, chempot) ==
    [weight |-> poles, chempot |-> chempot]

\* lines 122-126: the SelfEnergy made of the factoriser's poles, truncated
build_se_part_spin(poles, chempot) ==
    remove_uncoupled([weight |-> poles, chempot |-> chempot], weight_tol)

BsInit ==
    [gf |-> <<EmptyGf, EmptyGf>>, nmo |-> <<1, 1>>, max_memory |-> 0,
     gf_occ |-> <<EmptyGf, EmptyGf>>, gf_vir |-> <<EmptyGf, EmptyGf>>,
     part |-> "none", spin |-> "0", strategy |-> "none", dropped |-> 0,
     cur |-> <<>>, se_occ |-> <<>>, se_vir |-> <<>>, se |-> <<>>]

\* lines 573-579: the arguments and the split
BuildSeCall ==
    /\ pc = "idle"
    /\ \E gk \in KindPairs, ga \in GreensFunctions, gb \in GreensFunctions,
          nmo \in NmoVals \X NmoVals, mm \in MaxMemoryVals :
         LET sp == build_se_split(<<ga, gb>>)
         IN  /\ args' = [NoArgs EXCEPT !.gf = gk]
             /\ bs' = [BsInit EXCEPT !.gf = <<ga, gb>>, !.nmo = nmo,
                                     !.max_memory = mm, !.gf_occ = sp.occ,
                                     !.gf_vir = sp.vir, !.part = "occ"]
    /\ op' = "build_se"
    /\ pc' = "bsp_enter"
    /\ err' = "none"
    /\ work' = 0
    /\ touched' = {}
    /\ UNCHANGED <<fl, gfk, qm, ipea, en, ia, blk>>

\* lines 59-68: build_se_part's assertions (get_occupied and get_virtual
\* hand back objects of the class they were called on)
BuildSePartEnter ==
    /\ op = "build_se" /\ pc = "bsp_enter"
    /\ IF BuildSePartKindsOk(args.gf, args.gf)
       THEN /\ bs' = [bs EXCEPT !.spin = "0", !.cur = <<>>]
            /\ pc' = "bsp_spin"
            /\ err' = err
       ELSE /\ bs' = bs
            /\ pc' = "raised"
            /\ err' = "AssertionError"
    /\ UNCHANGED <<op, work, touched, args, fl, gfk, qm, ipea, en, ia, blk>>

\* lines 70-136: _build_se_part_spin for the current spin, and the return of
\* build_se_part after the second one
BuildSePartSpin ==
    /\ op = "build_se" /\ pc = "bsp_spin"
    /\ LET o == IF bs.part = "occ" THEN bs.gf_occ ELSE bs.gf_vir
           v == IF bs.part = "occ" THEN bs.gf_vir ELSE bs.gf_occ
           sw(t) == IF bs.spin = "0" THEN t ELSE <<t[2], t[1]>>
           nmoa == sw(bs.nmo)[1]
           noa == naux(sw(o)[1])
           nob == naux(sw(o)[2])
           nva == naux(sw(v)[1])
           nvb == naux(sw(v)[2])
           mem_incore == nmoa * noa * (noa * nva + nob * nvb)
           nocc == <<naux(o[1]), naux(o[2])>>
           nvir == <<naux(v[1]), naux(v[2])>>
       IN  \E mem_now \in MemNowVals :
             LET how == qmo_strategy(mem_incore, mem_now, bs.max_memory)
                 q == IF how = "incore"
                      THEN make_qmo_eris_incore(bs.nmo, nocc, nvir, bs.spin)
                      ELSE make_qmo_eris_outcore(bs.nmo, nocc, nvir, TRUE)
             IN  IF q.status = "ok"
                 THEN \E poles \in (IF noa = 0 THEN {<<>>}
                                    ELSE SeqsUpTo(WeightVals, MaxSePoles)) :
                        LET se == build_se_part_spin(poles, sw(o)[1].chempot)
                            b1 == [bs EXCEPT
                                     !.strategy = how,
                                     !.dropped = IF Len(se.weight) < Len(poles)
                                                 THEN 1 ELSE @,
                                     !.cur = Append(@, se)]
                        IN  /\ bs' = IF bs.spin = "0"
                                     THEN [b1 EXCEPT !.spin = "1"]
                                     ELSE IF bs.part = "occ"
                                     THEN [b1 EXCEPT !.se_occ = b1.cur,
                                                     !.part = "vir"]
                                     ELSE [b1 EXCEPT !.se_vir = b1.cur]
                            /\ pc' = IF bs.spin = "0" THEN "bsp_spin"
                                     ELSE IF bs.part = "occ" THEN "bsp_enter"
                                     ELSE "bs_combine"
                            /\ err' = err
                            /\ work' = 1
                 ELSE /\ bs' = [bs EXCEPT !.strategy = how]
                      /\ pc' = "raised"
                      /\ err' = q.status
                      /\ work' = work
    /\ UNCHANGED <<op, touched, args, fl, gfk, qm, ipea, en, ia, blk>>

\* lines 582-585: the occupied and virtual parts of each spin, joined
BuildSeCombine ==
    /\ op = "build_se" /\ pc = "bs_combine"
    /\ bs' = [bs EXCEPT !.se = <<combine(bs.se_occ[1], bs.se_vir[1]),
                                 combine(bs.se_occ[2], bs.se_vir[2])>>]
    /\ pc' = "returned"
    /\ UNCHANGED <<op, err, work, touched, args, fl, gfk, qm, ipea, en, ia, blk>>

----------------------------------------------------------------------------
(* init_aux *)

\* Hartree-Fock orbital energies of one spin, in units of half the energy
\* unit so that the midpoint of two of them is whole
MoEnergyVals == {-4, -2, 2, 4}

\* the orbital energies of n orbitals, ascending and non-degenerate
MoEnergies(n) ==
    {e \in [1..n -> MoEnergyVals] : \A i \in 1..(n - 1) : e[i] < e[i + 1]}

\* binsearch_chempot(fock, nphys, nelec, occupancy=1) for a Fock matrix with
\* the eigenvalues w, each eigenvector wholly in the physical space, and
\* 1 <= nelec < Len(w): the chemical potential halfway between the highest
\* occupied and the lowest empty eigenvalue, and the residual error 0
binsearch_chempot(w, nelec) ==
    <<Half(w[nelec] + w[nelec + 1]), 0>>

\* lines 517-523: element [0] of the search result is index 1 here and
\* element [1] is index 2
init_aux_gf(mo_energy, nocc) ==
    LET cpt_a == binsearch_chempot(mo_energy[1], nocc[1])[1]
        cpt_b == binsearch_chempot(mo_energy[2], nocc[2])[2]
    IN  <<[energy |-> mo_energy[1], chempot |-> cpt_a],
          [energy |-> mo_energy[2], chempot |-> cpt_b]>>

\* the frame of init_aux; called tells that the Green's function of the
\* operation in progress was built by init_aux
IaInit ==
    [called |-> FALSE, mo_energy |-> <<<<>>, <<>>>>, nocc |-> <<0, 0>>,
     with_se |-> FALSE, gf |-> <<EmptyGf, EmptyGf>>]

\* lines 509-530: the Green's function, and with with_se the call of
\* build_se on it (lines 573-579), whose result init_aux hands back
InitAux ==
    /\ pc = "idle"
    /\ \E na \in 2..MaxAux, nb \in 2..MaxAux, with_se \in BOOLEAN :
         \E ea \in MoEnergies(na), eb \in MoEnergies(nb),
            oa \in 1..(na - 1), ob \in 1..(nb - 1) :
           LET gf == init_aux_gf(<<ea, eb>>, <<oa, ob>>)
               sp == build_se_split(gf)
           IN  /\ ia' = [called |-> TRUE, mo_energy |-> <<ea, eb>>,
                         nocc |-> <<oa, ob>>, with_se |-> with_se, gf |-> gf]
               /\ IF with_se
                  THEN /\ \E mm \in MaxMemoryVals :
                            bs' = [BsInit EXCEPT !.gf = gf, !.nmo = <<na, nb>>,
                                                 !.max_memory = mm,
                                                 !.gf_occ = sp.occ,
                                                 !.gf_vir = sp.vir,
                                                 !.part = "occ"]
                       /\ op' = "build_se"
                       /\ pc' = "bsp_enter"
                  ELSE /\ bs' = bs
                       /\ op' = "init_aux"
                       /\ pc' = "returned"
    /\ args' = NoArgs
    /\ err' = "none"
    /\ work' = 0
    /\ touched' = {}
    /\ UNCHANGED <<fl, gfk, qm, ipea, en, blk>>

----------------------------------------------------------------------------
(* get_fock *)

\* literal integrals of a one-orbital system: core Hamiltonian per spin and
\* the four spin blocks of the repulsion integrals
EriVals ==
    {[h1e |-> <<-2, -1>>, aa |-> 1, ab |-> 1, ba |-> 1, bb |-> 1],
     [h1e |-> <<-1, -1>>, aa |-> 2, ab |-> 1, ba |-> 1, bb |-> 2]}

\* GreensFunction.make_rdm1 with occupancy 1 for unit couplings: one
\* electron per occupied pole
aux_make_rdm1(g) == naux(get_occupied(g))

\* UAGF2.make_rdm1: the density matrix of each spin
make_rdm1(gf) == <<aux_make_rdm1(gf[1]), aux_make_rdm1(gf[2])>>

\* ragf2.get_jk on one orbital: Coulomb and exchange matrices
get_jk(eri, rdm1) == [vj |-> eri * rdm1, vk |-> eri * rdm1]

\* lines 166-176: the Fock matrix of each spin from a density matrix
fock_of_rdm1(eri, rdm1) ==
    LET aa == get_jk(eri.aa, rdm1[1])
        bb == get_jk(eri.bb, rdm1[2])
        vj_ab == get_jk(eri.ab, rdm1[2]).vj
        vj_ba == get_jk(eri.ba, rdm1[1]).vj
        fock_a == eri.h1e[1] + aa.vj + vj_ab - aa.vk
        fock_b == eri.h1e[2] + bb.vj + vj_ba - bb.vk
    IN  <<fock_a, fock_b>>

\* lines 162-163: the density matrix get_fock goes on with; an argument
\* that was not passed (None) is <<>>, one that was is <<value>>
get_fock_rdm1(gf, rdm1) ==
    IF gf # <<>> THEN <<make_rdm1(gf[1])>> ELSE rdm1

GfkInit == [gf |-> <<>>, rdm1 |-> <<>>, eri |-> CHOOSE e \in EriVals : TRUE,
            fock |-> <<>>]

\* get_fock, lines 141-176
GetFock ==
    /\ pc = "idle"
    /\ \E eri \in EriVals,
          gf \in {<<>>} \cup {<<g>> : g \in GreensFunctions \X GreensFunctions},
          rdm1 \in {<<>>} \cup {<<r>> : r \in RdmVals \X RdmVals} :
         LET dm == get_fock_rdm1(gf, rdm1)
         IN  IF dm # <<>>
             THEN /\ gfk' = [gf |-> gf, rdm1 |-> rdm1, eri |-> eri,
                             fock |-> <<fock_of_rdm1(eri, dm[1])>>]
                  /\ pc' = "returned"
                  /\ err' = "none"
                  /\ work' = 1
             ELSE /\ gfk' = [gf |-> gf, rdm1 |-> rdm1, eri |-> eri,
                             fock |-> <<>>]
                  /\ pc' = "raised"
                  /\ err' = "AssertionError"
                  /\ work' = 0
    /\ op' = "get_fock"
    /\ touched' = {}
    /\ UNCHANGED <<args, fl, bs, qm, ipea, en, ia, blk>>

----------------------------------------------------------------------------
(* The energies *)

\* the per-spin contraction that energy_2body and energy_mp2 delegate to
\* checks the kinds of its own two arguments before it contracts them
ragf2_energy_kinds_ok(kg, ks) ==
    kg = "GreensFunction" /\ ks = "SelfEnergy"

\* the three assertions that open energy_1body (eri is of the right type)
Energy1BodyKindsOk(gk) ==
    gk[1] = "GreensFunction" /\ gk[2] = "GreensFunction"

\* energy_1body, lines 283-309
Energy1Body ==
    /\ pc = "idle"
    /\ \E gk \in KindPairs :
         /\ args' = [NoArgs EXCEPT !.gf = gk]
         /\ IF Energy1BodyKindsOk(gk)
            THEN pc' = "returned" /\ err' = "none" /\ work' = 1
            ELSE pc' = "raised" /\ err' = "AssertionError" /\ work' = 0
    /\ op' = "energy_1body"
    /\ touched' = {}
    /\ UNCHANGED <<fl, bs, gfk, qm, ipea, en, ia, blk>>

\* the seed contraction of one spin's initial (gf[s], se[s]), in units in
\* which the halves below are whole
ContractionVals == {-2, 0, 2}

\* ragf2.energy_mp2 of one spin, x being the seed contraction of that spin
ragf2_energy_mp2(x) == x

\* ragf2.energy_2body of one spin: for the initial pair, twice the seed
\* contraction (docstring of energy_mp2, lines 336-339)
ragf2_energy_2body(x) == 2 * x

\* lines 327-330, xa and xb being the seed contractions of the two spins
energy_2body(xa, xb) ==
    Half(ragf2_energy_2body(xa) + ragf2_energy_2body(xb))

energy_mp2_NotHalved(xa, xb) ==
    ragf2_energy_mp2(xa) + ragf2_energy_mp2(xb)

\* lines 351-354
energy_mp2(xa, xb) ==
    Half(ragf2_energy_mp2(xa) + ragf2_energy_mp2(xb))

\* the value an energy operation hands back
energy_of(name, xa, xb) ==
    IF name = "energy_mp2" THEN energy_mp2(xa, xb) ELSE energy_2body(xa, xb)

\* x: the seed contractions of the spins contracted so far; e: the result
EnInit == [x |-> <<>>, e |-> <<>>]

\* the alpha contraction of energy_2body (line 327) or energy_mp2 (line 351)
EnergyAlpha(name) ==
    /\ pc = "idle"
    /\ \E gk \in KindPairs, sk \in KindPairs :
         /\ args' = [gf |-> gk, se |-> sk]
         /\ IF ragf2_energy_kinds_ok(gk[1], sk[1])
            THEN /\ pc' = "en_beta" /\ err' = "none" /\ work' = 1
                 /\ \E xa \in ContractionVals : en' = [EnInit EXCEPT !.x = <<xa>>]
            ELSE /\ pc' = "raised" /\ err' = "AssertionError" /\ work' = 0
                 /\ en' = EnInit
    /\ op' = name
    /\ touched' = {}
    /\ UNCHANGED <<fl, bs, gfk, qm, ipea, ia, blk>>

\* the beta contraction and the halved sum (lines 328-332 or 352-356)
EnergyBeta(name) ==
    /\ op = name /\ pc = "en_beta"
    /\ IF ragf2_energy_kinds_ok(args.gf[2], args.se[2])
       THEN /\ pc' = "returned" /\ err' = err /\ work' = work + 1
            /\ \E xb \in ContractionVals :
                  en' = [x |-> en.x \o <<xb>>,
                         e |-> <<energy_of(name, en.x[1], xb)>>]
       ELSE /\ pc' = "raised" /\ err' = "AssertionError" /\ work' = work
            /\ en' = en
    /\ UNCHANGED <<op, touched, args, fl, bs, gfk, qm, ipea, ia, blk>>

\* energy_2body, lines 312-332
Energy2BodyAlpha == EnergyAlpha("energy_2body")

Energy2BodyBeta == EnergyBeta("energy_2body")

\* energy_mp2, lines 335-356
EnergyMp2Alpha == EnergyAlpha("energy_mp2")

EnergyMp2Beta == EnergyBeta("energy_mp2")

----------------------------------------------------------------------------
(* get_ip and get_ea *)

NrootsVals == {1, 2}

RECURSIVE Reverse(_)
Reverse(s) == IF s = <<>> THEN <<>> ELSE Append(Reverse(Tail(s)), Head(s))

Negate(s) == [i \in DOMAIN s |-> 0 - s[i]]

\* s[:n]
FirstN(s, n) == SubSeq(s, 1, IF n < Len(s) THEN n ELSE Len(s))

\* s[-n:]
LastN(s, n) == SubSeq(s, IF n < Len(s) THEN Len(s) - n + 1 ELSE 1, Len(s))

IpeaInit == [gf |-> <<EmptyGf, EmptyGf>>, nroots |-> 1,
             split |-> <<EmptyGf, EmptyGf>>, e |-> <<>>]

\* get_ip, lines 588-592
GetIp ==
    /\ pc = "idle"
    /\ \E ga \in GreensFunctions, gb \in GreensFunctions, nroots \in NrootsVals :
         LET sp == <<get_occupied(ga), get_occupied(gb)>>
             gf_occ == combine(sp[1], sp[2])
         IN  ipea' = [gf |-> <<ga, gb>>, nroots |-> nroots, split |-> sp,
                      e |-> Reverse(Negate(LastN(gf_occ.energy, nroots)))]
    /\ op' = "get_ip"
    /\ pc' = "returned"
    /\ err' = "none"
    /\ work' = 0
    /\ touched' = {}
    /\ UNCHANGED <<args, fl, bs, gfk, qm, en, ia, blk>>

\* get_ea, lines 594-598
GetEa ==
    /\ pc = "idle"
    /\ \E ga \in GreensFunctions, gb \in GreensFunctions, nroots \in NrootsVals :
         LET sp == <<get_virtual(ga), get_virtual(gb)>>
             gf_vir == combine(sp[1], sp[2])
         IN  ipea' = [gf |-> <<ga, gb>>, nroots |-> nroots, split |-> sp,
                      e |-> FirstN(gf_vir.energy, nroots)]
    /\ op' = "get_ea"
    /\ pc' = "returned"
    /\ err' = "none"
    /\ work' = 0
    /\ touched' = {}
    /\ UNCHANGED <<args, fl, bs, gfk, qm, en, ia, blk>>

----------------------------------------------------------------------------
(* Properties of fock_loop *)

FockLoopReturned == op = "fock_loop" /\ pc = "returned"

\* C1: fock_loop returns converged = True exactly when, at the end of the
\* most recent inner pass of the outer iteration it stopped in, the density
\* change derr is below conv_tol_rdm1 and the electron-count residual nerr is
\* below conv_tol_nelec in absolute value; every other return carries
\* converged = False.
C1_ConvergedIffBothTolerances ==
    FockLoopReturned =>
        (fl.converged <=>
            /\ fl.derr_at = <<fl.niter1, fl.niter2>>
            /\ fl.derr < conv_tol_rdm1
            /\ Abs(fl.nerr) < conv_tol_nelec)

\* a run that converged in its second outer iteration
C1_Witness ==
    FockLoopReturned /\ fl.converged /\ fl.niter1 = 2

\* a run that exhausted the outer loop and came back unconverged
C1_WitnessUnconverged ==
    FockLoopReturned /\ ~fl.converged /\ fl.niter1 = fl.max_cycle_outer

\* C2: after fock_loop reports converged = True, the signed residual of each
\* spin's last bisection search is below conv_tol_nelec in absolute value.
C2_PerSpinResidualWithinTolerance ==
    (FockLoopReturned /\ fl.converged) =>
        /\ Abs(fl.nerra) < conv_tol_nelec
        /\ Abs(fl.nerrb) < conv_tol_nelec

\* C3: with max_cycle_outer >= 1 and max_cycle_inner >= 1 a run of fock_loop
\* on arguments of the right kinds never raises, and a run that comes back
\* unconverged has used up the outer loop and returns the pair of the last
\* completed inner pass.
C3_UnconvergedRunEndsNormally ==
    (/\ op = "fock_loop"
     /\ FockLoopKindsOk(args.gf, args.se)
     /\ fl.max_cycle_outer >= 1
     /\ fl.max_cycle_inner >= 1) =>
        /\ pc # "raised"
        /\ (pc = "returned" /\ ~fl.converged) =>
              /\ fl.niter1 = fl.max_cycle_outer
              /\ fl.gf = <<fl.niter1, fl.niter2>>
              /\ fl.se = <<fl.niter1, fl.niter2>>

\* C4: the outer loop body runs at most max_cycle_outer times, the inner
\* body at most max_cycle_inner times per outer iteration (at most their
\* product in total), and the outer loop is left only by reaching its bound
\* or by passing the tolerance test.
C4_LoopsEndByBoundOrTolerance ==
    (/\ op = "fock_loop"
     /\ fl.max_cycle_outer >= 1
     /\ fl.max_cycle_inner >= 1) =>
        /\ fl.niter1 <= fl.max_cycle_outer
        /\ fl.it2 <= fl.max_cycle_inner
        /\ fl.passes <= fl.max_cycle_outer * fl.max_cycle_inner
        /\ fl.left_by \in {"none", "bound", "tolerance"}

----------------------------------------------------------------------------
(* Properties of the transform, the builder, the kinds and get_fock *)

\* C5: when the memory estimate does not fit max_memory, build_se_part
\* switches to the streamed transform and that path completes: the build
\* never ends in an error after taking it, for either spin.
C5_OverBudgetNeverErrors ==
    (op = "build_se" /\ bs.strategy = "outcore") => pc # "raised"

\* C6: for spin 0 and 1 and every input, the streamed transform returns the
\* same tensors (order, shapes, contents) as the materialized one.
C6_StreamedEqualsMaterialized ==
    (op = "qmo" /\ qm.spin \in {"0", "1"} /\ pc \in {"returned", "raised"}) =>
        /\ qm.outcore.status = "ok"
        /\ qm.outcore.qeri = qm.incore.qeri

\* the blocks of one dataset, in the order they were stored
BlocksOf(written, label) == SelectSeq(written, LAMBDA w : w.label = label)

\* the blocks are non-empty, ascending, adjacent and span 0..n-1
Covers(b, n) ==
    /\ Len(b) >= 1
    /\ b[1].p0 = 0
    /\ b[Len(b)].p1 = n
    /\ \A i \in 1..Len(b) : b[i].p0 < b[i].p1
    /\ \A i \in 1..(Len(b) - 1) : b[i].p1 = b[i + 1].p0

\* the datasets a call with the given spin argument fills, with the size of
\* their first axis
StoreAxes(spin, nmo) ==
    (IF spin \in {"None", "0"}
     THEN {<<"qmo/aa", nmo[1]>>, <<"qmo/ab", nmo[1]>>} ELSE {})
    \cup (IF spin \in {"None", "1"}
          THEN {<<"qmo/ba", nmo[2]>>, <<"qmo/bb", nmo[2]>>} ELSE {})

\* C15: the streamed transform ends with every dataset of its spin-pair
\* labels filled by blocks [p0, p1) of the physical-orbital axis that are
\* disjoint, ascending and cover 0..nmo-1 exactly once, whatever the
\* remaining memory: the block size stays within 1..nmo and the loop ends.
C15_BlocksCoverOrbitalAxis ==
    (op = "qmo" /\ pc \in {"returned", "raised"}) =>
        /\ qm.outcore.status = "ok"
        /\ \A d \in StoreAxes(qm.spin, qm.nmo) :
              Covers(BlocksOf(qm.outcore.written, d[1]), d[2])

\* the block plan by itself: the block size is within 1..n
Plan_BlockSizeInRange ==
    blk.stage # "none" => (1 <= blk.blksize /\ blk.blksize <= blk.n)

\* the block plan by itself: when the loop has ended both datasets of the
\* spin hold blocks that cover 0..n-1 exactly once
Plan_BlocksCover ==
    blk.stage = "done" =>
        \A i \in 1..2 :
           Covers(BlocksOf(blk.written, qmo_labels(blk.spin)[i]), blk.n)

\* the block plan by itself: the loop always ends
Plan_LoopEnds == (blk.stage = "loop") ~> (blk.stage = "done")

\* a plan of several blocks forced by the minimum, with no memory left
Plan_Witness ==
    /\ blk.stage = "done" /\ blk.remaining < 0
    /\ blk.blksize = blk.blkmin /\ blk.blksize < blk.n
    /\ Len(blk.written) >= 4

\* whether the running operation was given the kinds it requires
KindsRequiredOk ==
    CASE op = "fock_loop" -> FockLoopKindsOk(args.gf, args.se)
      [] op = "build_se" -> BuildSePartKindsOk(args.gf, args.gf)
      [] op = "energy_1body" -> Energy1BodyKindsOk(args.gf)
      [] op \in {"energy_2body", "energy_mp2"} ->
            FockLoopKindsOk(args.gf, args.se)
      [] OTHER -> TRUE

\* C7: an operation given an auxiliary set of the wrong kind fails before
\* any numeric work is done and before any state is changed, and never
\* returns.
C7_WrongKindFailsBeforeAnyWork ==
    ~KindsRequiredOk => (work = 0 /\ touched = {} /\ pc # "returned")

\* the same for the operations that open with their own assertions
C7_AssertingOperationsFailFast ==
    (op \in {"fock_loop", "build_se", "energy_1body"} /\ ~KindsRequiredOk) =>
        (work = 0 /\ touched = {} /\ pc # "returned")

AllAtLeastTol(ses) ==
    \A i \in DOMAIN ses : \A j \in DOMAIN ses[i].weight :
        ses[i].weight[j] >= weight_tol

\* C8: no pole of a self-energy the builder hands back has a squared
\* coupling norm below weight_tol: neither the per-spin, per-direction
\* results of build_se_part nor the combined result of build_se.
C8_NoPoleBelowWeightTol ==
    op = "build_se" =>
        /\ AllAtLeastTol(bs.cur)
        /\ AllAtLeastTol(bs.se_occ)
        /\ AllAtLeastTol(bs.se_vir)
        /\ AllAtLeastTol(bs.se)

\* build_se returned a non-empty alpha self-energy after a pole had been
\* truncated
C8_Witness ==
    /\ op = "build_se" /\ pc = "returned"
    /\ bs.dropped = 1
    /\ Len(bs.se[1].weight) > 0

Count(s, v) == Cardinality({i \in DOMAIN s : s[i] = v})

IsPartition(g, occ, vir) ==
    /\ \A v \in EnergyVals \cup MoEnergyVals :
          Count(g.energy, v) = Count(occ.energy, v) + Count(vir.energy, v)
    /\ \A i \in DOMAIN occ.energy : occ.energy[i] <= g.chempot
    /\ \A j \in DOMAIN vir.energy : vir.energy[j] > g.chempot
    /\ \A i \in DOMAIN occ.energy : \A j \in DOMAIN vir.energy :
          occ.energy[i] # vir.energy[j]

\* C9: for each spin of a Green's function that build_se, get_ip or get_ea
\* splits, the occupied poles (energy <= chempot) and the virtual poles
\* (energy > chempot) are disjoint and together are exactly the poles of
\* that spin, none lost and none twice.
C9_SplitIsPartition ==
    /\ op = "build_se" =>
          \A s \in 1..2 : IsPartition(bs.gf[s], bs.gf_occ[s], bs.gf_vir[s])
    /\ op = "get_ip" =>
          \A s \in 1..2 :
             IsPartition(ipea.gf[s], ipea.split[s], get_virtual(ipea.gf[s]))
    /\ op = "get_ea" =>
          \A s \in 1..2 :
             IsPartition(ipea.gf[s], get_occupied(ipea.gf[s]), ipea.split[s])

\* build_se split two different Green's functions, each with occupied and
\* virtual poles, alpha with a pole at the chemical potential
C9_Witness ==
    /\ op = "build_se" /\ pc = "bsp_enter"
    /\ bs.gf[1] # bs.gf[2]
    /\ \A s \in 1..2 : naux(bs.gf_occ[s]) > 0 /\ naux(bs.gf_vir[s]) > 0
    /\ \E i \in DOMAIN bs.gf[1].energy : bs.gf[1].energy[i] = bs.gf[1].chempot

\* C10: get_fock builds the Fock matrix from rdm1 whenever rdm1 is passed,
\* from the density matrix of gf only when rdm1 is absent, and fails when
\* neither is passed.
C10_Rdm1TakesPriority ==
    (op = "get_fock" /\ pc \in {"returned", "raised"}) =>
        IF gfk.rdm1 # <<>>
        THEN pc = "returned"
             /\ gfk.fock = <<fock_of_rdm1(gfk.eri, gfk.rdm1[1])>>
        ELSE IF gfk.gf # <<>>
        THEN pc = "returned"
             /\ gfk.fock = <<fock_of_rdm1(gfk.eri, make_rdm1(gfk.gf[1]))>>
        ELSE pc = "raised"

\* the part of C10 the code does: gf decides when it is passed
C10_GfTakesPriority ==
    (op = "get_fock" /\ pc \in {"returned", "raised"}) =>
        IF gfk.gf # <<>>
        THEN pc = "returned"
             /\ gfk.fock = <<fock_of_rdm1(gfk.eri, make_rdm1(gfk.gf[1]))>>
        ELSE IF gfk.rdm1 # <<>>
        THEN pc = "returned"
             /\ gfk.fock = <<fock_of_rdm1(gfk.eri, gfk.rdm1[1])>>
        ELSE pc = "raised"

\* C11: the extrapolation history of a fock_loop invocation holds exactly
\* the entries of that invocation, one per inner pass summed over the outer
\* iterations: it starts empty, also when the call follows an invocation
\* that had pushed entries of its own.
C11_DiisHistoryIsPerInvocation ==
    op = "fock_loop" => fl.diis = fl.passes

\* a second invocation, called on the result of one that pushed entries, in
\* its second outer iteration with entries of both iterations
C11_Witness ==
    /\ op = "fock_loop" /\ fl.restart
    /\ fl.niter1 = 2 /\ fl.it2 >= 1
    /\ fl.diis >= 2 /\ fl.diis = fl.passes

\* C14: every Fock matrix of a fock_loop invocation is evaluated by the
\* get_fock callable when one is passed, and by agf2.get_fock only when
\* get_fock is None.
C14_EveryFockThroughCallable ==
    op = "fock_loop" => fl.fock_by \subseteq {resolve_get_fock(fl.get_fock)}

\* the part of C14 the code does: the first Fock matrix goes through the
\* resolved callable, the ones of the inner passes through agf2.get_fock
C14_InnerFockThroughDefault ==
    (op = "fock_loop" /\ fl.fock_by # {}) =>
        fl.fock_by = {resolve_get_fock(fl.get_fock)}
                     \cup (IF fl.passes > 0 THEN {"agf2.get_fock"} ELSE {})

\* C13: for the initial Green's function and self-energy, energy_mp2 is
\* exactly half of energy_2body of the same pair, both being the halved sum
\* over the spins of the per-spin contractions.
C13_SeedIsHalfTwoBody ==
    /\ (op = "energy_mp2" /\ pc = "returned") =>
           en.e[1] = Half(energy_2body(en.x[1], en.x[2]))
    /\ (op = "energy_2body" /\ pc = "returned") =>
           Half(en.e[1]) = energy_mp2(en.x[1], en.x[2])

\* energy_mp2 returned a non-zero energy for spins that contribute differently
C13_Witness ==
    /\ op = "energy_mp2" /\ pc = "returned"
    /\ en.x[1] # en.x[2]
    /\ en.e[1] # 0

\* C16: for each spin the Green's function init_aux builds has the chemical
\* potential the search returns for that spin's Fock matrix and electron
\* count, so that its poles at or below the chemical potential, also as
\* build_se splits them, are exactly nocc[s] many.
C16_InitialChempotSplitsAtNocc ==
    ia.called =>
        \A s \in 1..2 :
           /\ ia.gf[s].chempot
                 = binsearch_chempot(ia.mo_energy[s], ia.nocc[s])[1]
           /\ naux(get_occupied(ia.gf[s])) = ia.nocc[s]
           /\ (op = "build_se") => naux(bs.gf_occ[s]) = ia.nocc[s]

\* the part of C16 the code does: the alpha Green's function
C16_AlphaChempotSplitsAtNocc ==
    ia.called =>
        /\ ia.gf[1].chempot
              = binsearch_chempot(ia.mo_energy[1], ia.nocc[1])[1]
        /\ naux(get_occupied(ia.gf[1])) = ia.nocc[1]
        /\ (op = "build_se") => naux(bs.gf_occ[1]) = ia.nocc[1]

----------------------------------------------------------------------------
(* The caller *)

\* the operation is over (value returned or exception propagated) and the
\* caller is free to invoke the next one
Finish ==
    /\ pc \in {"returned", "raised"}
    /\ op' = "none"
    /\ pc' = "idle"
    /\ err' = "none"
    /\ work' = 0
    /\ touched' = {}
    /\ args' = NoArgs
    /\ fl' = FlInit
    /\ bs' = BsInit
    /\ qm' = QmInit
    /\ gfk' = GfkInit
    /\ ipea' = IpeaInit
    /\ en' = EnInit
    /\ ia' = IaInit
    /\ blk' = BlkInit

Init ==
    /\ op = "none"
    /\ pc = "idle"
    /\ err = "none"
    /\ work = 0
    /\ touched = {}
    /\ args = NoArgs
    /\ fl = FlInit
    /\ bs = BsInit
    /\ qm = QmInit
    /\ gfk = GfkInit
    /\ ipea = IpeaInit
    /\ en = EnInit
    /\ ia = IaInit
    /\ blk = BlkInit

Next ==
    \/ FockLoopCall
    \/ FockLoopOuter
    \/ FockLoopInner
    \/ FockLoopAfterInner
    \/ FockLoopExit
    \/ QmoIncore
    \/ QmoOutcore
    \/ BuildSeCall
    \/ BuildSePartEnter
    \/ BuildSePartSpin
    \/ BuildSeCombine
    \/ InitAux
    \/ GetFock
    \/ Energy1Body
    \/ Energy2BodyAlpha
    \/ Energy2BodyBeta
    \/ EnergyMp2Alpha
    \/ EnergyMp2Beta
    \/ GetIp
    \/ GetEa
    \/ Finish

Spec == Init /\ [][Next]_vars

\* the block plan on inputs of its own
PlanNext ==
    \/ PlanBlocks
    \/ PlanWriteBlock
    \/ PlanEnd
    \/ PlanReset

PlanSpec == Init /\ [][PlanNext]_vars

PlanFairSpec == PlanSpec /\ WF_vars(PlanWriteBlock) /\ WF_vars(PlanEnd)

====
